---- MODULE Spec2Model ----
(***************************************************************************)
(* The EN/HT sample-collection HTTP service: the partitioned-layout server *)
(* (data/audio/<lang>, data/pairs) and the flat-layout server.js, as a     *)
(* state machine over the data directory.  One action per route handler;   *)
(* each action is the whole handler, from routing to the response.         *)
(***************************************************************************)
EXTENDS Integers, Sequences, FiniteSets, TLC

VARIABLES
  layout,   \* which server runs: "partitioned" or "flat" (server.js)
  env,      \* NODE_ENV of the process
  dirs,     \* directories that exist under the server's __dirname
  fs,       \* files on disk: <<dir, name>> :> [ino, mtime, data]
  now,      \* the clock (Date.now / mtimeMs)
  issued,   \* identifiers randomUUID() has returned in this run
  left,     \* requests still to come in this behaviour
  pending,  \* requests received whose handler waits in `await readBody`
  seen,     \* history: <<kind, record>> for the records that list calls
            \* answered before the last request have returned
  written,  \* history: the records that 200 responses of ingest and link
            \* requests have returned in this behaviour
  req,      \* the request answered last
  resp      \* the response sent last

vars == <<layout, env, dirs, fs, now, issued, left, pending, seen, written, req, resp>>

-----------------------------------------------------------------------------
(* Bounds of the model *)

MaxReqs == 3          \* requests per behaviour of Spec
MaxChunks == 3        \* chunks of a request body (rich alphabet)
MaxStoreFiles == 52   \* records of a pre-populated store (SpecStore)

-----------------------------------------------------------------------------
(* Paths and configuration *)

MAX_FILE_SIZE == 10 * 1024 * 1024
PAGE_SIZE == 50

DATA_ROOT == "data"
AUDIO_DIR == "data/audio"
AUDIO_EN_DIR == "data/audio/en"
AUDIO_HT_DIR == "data/audio/ht"
PAIRS_DIR == "data/pairs"
MANIFESTS_DIR == "data/manifests"
DATA_DIR == "data"

\* path.dirname restricted to the directories the servers use
Parents(dir) ==
  CASE dir = AUDIO_EN_DIR -> {DATA_ROOT, AUDIO_DIR}
    [] dir = AUDIO_HT_DIR -> {DATA_ROOT, AUDIO_DIR}
    [] dir = PAIRS_DIR -> {DATA_ROOT}
    [] dir = MANIFESTS_DIR -> {DATA_ROOT}
    [] dir = AUDIO_DIR -> {DATA_ROOT}
    [] OTHER -> {}

\* fs.mkdirSync(dir, { recursive: true }): the directory and its parents
mkdirSync(ds, dir) == ds \cup {dir} \cup Parents(dir)

-----------------------------------------------------------------------------
(* JavaScript strings *)

Upper == "ABCDEFGHIJKLMNOPQRSTUVWXYZ"
Lower == "abcdefghijklmnopqrstuvwxyz"

charAt(s, i) == SubSeq(s, i, i)

LowerOf ==
  [c \in {charAt(Upper, k) : k \in 1..Len(Upper)} |->
     charAt(Lower, CHOOSE k \in 1..Len(Upper) : charAt(Upper, k) = c)]

lowerChar(c) == IF c \in DOMAIN LowerOf THEN LowerOf[c] ELSE c

RECURSIVE lowerFrom(_, _)
lowerFrom(s, i) ==
  IF i > Len(s) THEN "" ELSE lowerChar(charAt(s, i)) \o lowerFrom(s, i + 1)

\* String.prototype.toLowerCase
toLowerCase(s) == lowerFrom(s, 1)

\* String.prototype.includes
includes(s, sub) ==
  \E i \in 1..(Len(s) + 1) :
    /\ i + Len(sub) - 1 <= Len(s)
    /\ SubSeq(s, i, i + Len(sub) - 1) = sub

\* String.prototype.endsWith
endsWith(s, suffix) ==
  /\ Len(suffix) <= Len(s)
  /\ SubSeq(s, Len(s) - Len(suffix) + 1, Len(s)) = suffix

-----------------------------------------------------------------------------
(* JSON values of a link payload: undefined (absent key), string, boolean *)

JUndef == [t |-> "undefined", s |-> "", b |-> FALSE]
JStr(s) == [t |-> "string", s |-> s, b |-> FALSE]
JBool(b) == [t |-> "boolean", s |-> "", b |-> b]

\* JavaScript truthiness (what !v negates)
Truthy(v) ==
  CASE v.t = "undefined" -> FALSE
    [] v.t = "string" -> v.s # ""
    [] v.t = "boolean" -> v.b
    [] OTHER -> FALSE

\* (a fallback that only an absent value takes)
OrElseUndefined(a, b) == IF a.t = "undefined" THEN b ELSE a

\* a || b
OrElse(a, b) == IF Truthy(a) THEN a ELSE b

\* x = default in a destructuring pattern: only undefined takes the default
Default(v, d) == IF v.t = "undefined" THEN d ELSE v

-----------------------------------------------------------------------------
(* Helpers of the servers *)

\* the mapping without the lower-casing of its argument
extFromContentTypeExact(ct) ==
  IF includes(ct, "audio/webm") THEN ".webm"
  ELSE IF includes(ct, "audio/wav") THEN ".wav"
  ELSE IF includes(ct, "audio/mpeg") \/ includes(ct, "audio/mp3") THEN ".mp3"
  ELSE IF includes(ct, "audio/ogg") THEN ".ogg"
  ELSE ".bin"

extFromContentType(ct) ==
  LET t == toLowerCase(ct) IN
  IF includes(t, "audio/webm") THEN ".webm"
  ELSE IF includes(t, "audio/wav") THEN ".wav"
  ELSE IF includes(t, "audio/mpeg") \/ includes(t, "audio/mp3") THEN ".mp3"
  ELSE IF includes(t, "audio/ogg") THEN ".ogg"
  ELSE ".bin"

RECURSIVE SumSeq(_)
SumSeq(s) == IF s = <<>> THEN 0 ELSE Head(s) + SumSeq(Tail(s))

\* server.js readBody: every chunk is buffered, whatever the total
RECURSIVE readAll(_, _)
readAll(chunks, total) ==
  IF chunks = <<>> THEN [ok |-> TRUE, length |-> total, rest |-> <<>>]
  ELSE readAll(Tail(chunks), total + Head(chunks))

\* (a reader that also refuses a body of exactly maxSize)
RECURSIVE readBoundedStrict(_, _, _)
readBoundedStrict(chunks, total, maxSize) ==
  IF chunks = <<>> THEN [ok |-> TRUE, length |-> total, rest |-> <<>>]
  ELSE IF total + Head(chunks) >= maxSize
    THEN [ok |-> FALSE, length |-> total, rest |-> Tail(chunks)]
  ELSE readBoundedStrict(Tail(chunks), total + Head(chunks), maxSize)

\* readBody of the partitioned server: throws at the first chunk that takes
\* the running total over maxSize; length is the bytes pushed on the buffer
\* list, rest the chunks never taken from the stream
RECURSIVE readBounded(_, _, _)
readBounded(chunks, total, maxSize) ==
  IF chunks = <<>> THEN [ok |-> TRUE, length |-> total, rest |-> <<>>]
  ELSE IF total + Head(chunks) > maxSize
    THEN [ok |-> FALSE, length |-> total, rest |-> Tail(chunks)]
  ELSE readBounded(Tail(chunks), total + Head(chunks), maxSize)

\* (a reader that lost the size check)
readBodyNoLimit(chunks) == readAll(chunks, 0)

readBody(chunks) == readBounded(chunks, 0, MAX_FILE_SIZE)

readBodyFlat(chunks) == readAll(chunks, 0)

\* (an identifier made of the clock reading)
randomUUIDOfClock(w) == "t" \o ToString(w.now)

\* (an identifier source that returns the same value on every call)
randomUUIDStale(w) == "u1"

\* randomUUID(): a value it has not returned before
randomUUID(w) == "u" \o ToString(Cardinality(w.issued) + 1)

\* The file at <<dir, name>>: [ino, mtime, data].  data is the content: Blob(n)
\* for n raw bytes, a record for the JSON text of that record, Corrupt for text
\* JSON.parse rejects.  ino orders the directory entries.
Blob(n) == [kind |-> "blob", length |-> n]
Corrupt == [kind |-> "corrupt"]

inoOf(files, p) ==
  IF p \in DOMAIN files THEN files[p].ino ELSE Cardinality(DOMAIN files) + 1

\* (a write that leaves only the file written)
writeFileSyncAlone(files, dir, name, data, t) ==
  <<dir, name>> :> [ino |-> 1, mtime |-> t, data |-> data]

\* fs.writeFileSync(path, content): creates or replaces the file
writeFileSync(files, dir, name, data, t) ==
  (<<dir, name>> :> [ino |-> inoOf(files, <<dir, name>>), mtime |-> t, data |-> data])
    @@ files

\* A write that fails: at open (nothing changes) or after the file was
\* created or truncated (an empty file is left)
failedWrite(files, dir, name, fault, t) ==
  IF fault \in {"writeBlob", "writeMeta", "writePair"}
    THEN writeFileSync(files, dir, name,
                       IF fault = "writeBlob" THEN Blob(0) ELSE Corrupt, t)
    ELSE files

Response(status, body) == [status |-> status, body |-> body]

World == [dirs |-> dirs, fs |-> fs, now |-> now, issued |-> issued]

Out(w, r) == [w |-> w, resp |-> r]

-----------------------------------------------------------------------------
(* POST /api/asr/:lang, partitioned server *)

asrFolder(lang) == IF lang = "ht" THEN AUDIO_HT_DIR ELSE AUDIO_EN_DIR

codecOf(ext) ==
  IF ext = ".wav" THEN "pcm_s16le" ELSE IF ext = ".webm" THEN "opus" ELSE "unknown"

asrMetadata(id, lang, t, contentType, bytes, ext) ==
  [kind |-> "audio",
   id |-> id,
   lang |-> IF lang = "ht" THEN "ht-HT" ELSE "en-US",
   createdAt |-> t,
   contentType |-> contentType,
   bytes |-> bytes,
   audioFile |-> id \o ext,
   transcript |-> IF lang = "ht" THEN "Bonjou mond (ASR stub)"
                                 ELSE "Hello World (ASR stub)",
   codec |-> codecOf(ext),
   sr |-> "null",
   duration_s |-> "null",
   domain |-> <<>>]

asrFailed == Response(500, [ok |-> FALSE, error |-> "ASR save failed"])

\* (a handler that writes the sidecar before the blob)
asrPostSidecarFirst(w, r) ==
  LET lang == toLowerCase(IF r.lang = "" THEN "en" ELSE r.lang)
      body == readBody(r.chunks)
      contentType == IF r.ct = "" THEN "application/octet-stream" ELSE r.ct
      id == randomUUID(w)
      ext == extFromContentType(contentType)
      folder == asrFolder(lang)
      t == w.now + r.dt
      metadata == asrMetadata(id, lang, t, contentType, body.length, ext)
      w3 == [w EXCEPT !.now = t, !.issued = @ \cup {id},
                      !.dirs = mkdirSync(mkdirSync(@, folder), MANIFESTS_DIR)]
      w4 == [w3 EXCEPT !.fs = writeFileSync(@, folder, id \o ".json", metadata, t)]
      w5 == [w4 EXCEPT !.fs = writeFileSync(@, folder, id \o ext, Blob(body.length), t)]
  IN  IF ~body.ok \/ r.fault \in {"mkdir", "mkdirManifests"} THEN Out(w, asrFailed)
      ELSE IF r.fault \in {"openMeta", "writeMeta"}
        THEN Out([w3 EXCEPT !.fs = failedWrite(@, folder, id \o ".json", r.fault, t)],
                 asrFailed)
      ELSE IF r.fault \in {"openBlob", "writeBlob"}
        THEN Out([w4 EXCEPT !.fs = failedWrite(@, folder, id \o ext, r.fault, t)],
                 asrFailed)
      ELSE Out(w5, Response(200, [ok |-> TRUE] @@ metadata))

asrPost(w, r) ==
  LET lang == toLowerCase(IF r.lang = "" THEN "en" ELSE r.lang)
      body == readBody(r.chunks)
      contentType == IF r.ct = "" THEN "application/octet-stream" ELSE r.ct
      id == randomUUID(w)
      ext == extFromContentType(contentType)
      folder == asrFolder(lang)
      t == w.now + r.dt
      metadata == asrMetadata(id, lang, t, contentType, body.length, ext)
      w0 == [w EXCEPT !.now = t]
      w1 == [w0 EXCEPT !.issued = @ \cup {id}]
      w2 == [w1 EXCEPT !.dirs = mkdirSync(@, folder)]
      w3 == [w2 EXCEPT !.dirs = mkdirSync(@, MANIFESTS_DIR)]
      w4 == [w3 EXCEPT !.fs = writeFileSync(@, folder, id \o ext, Blob(body.length), t)]
      w5 == [w4 EXCEPT !.fs = writeFileSync(@, folder, id \o ".json", metadata, t)]
  IN  IF ~body.ok THEN Out(w, asrFailed)
      ELSE IF r.fault = "mkdir" THEN Out(w1, asrFailed)
      ELSE IF r.fault = "mkdirManifests" THEN Out(w2, asrFailed)
      ELSE IF r.fault \in {"openBlob", "writeBlob"}
        THEN Out([w3 EXCEPT !.fs = failedWrite(@, folder, id \o ext, r.fault, t)],
                 asrFailed)
      ELSE IF r.fault \in {"openMeta", "writeMeta"}
        THEN Out([w4 EXCEPT !.fs = failedWrite(@, folder, id \o ".json", r.fault, t)],
                 asrFailed)
      ELSE Out(w5, Response(200, [ok |-> TRUE] @@ metadata))

-----------------------------------------------------------------------------
(* POST /api/asr/:lang, flat server.js *)

flatMetadata(id, lang, t, contentType, bytes, ext) ==
  [kind |-> "audio",
   id |-> id,
   lang |-> lang,
   createdAt |-> t,
   contentType |-> contentType,
   bytes |-> bytes,
   audioFile |-> id \o ext,
   transcript |-> IF lang = "ht" THEN "Bonjou mond (ASR stub)"
                                 ELSE "Hello World (ASR stub)",
   notes |-> "Replace transcript with real ASR later."]

\* ensureDir of server.js swallows the error of a failed mkdir
ensureDirFlat(ds, dir, fault) == IF fault = "mkdir" THEN ds ELSE mkdirSync(ds, dir)

flatAsrPost(w, r) ==
  LET w0 == [w EXCEPT !.now = w.now + r.dt,
                      !.dirs = ensureDirFlat(@, DATA_DIR, r.fault)]
      lang == IF r.lang = "" THEN "en" ELSE r.lang
      body == readBodyFlat(r.chunks)
      contentType == IF r.ct = "" THEN "application/octet-stream" ELSE r.ct
      id == randomUUID(w)
      ext == extFromContentType(contentType)
      t == w0.now
      metadata == flatMetadata(id, lang, t, contentType, body.length, ext)
      w1 == [w0 EXCEPT !.issued = @ \cup {id}]
      w2 == [w1 EXCEPT !.fs = writeFileSync(@, DATA_DIR, id \o ext, Blob(body.length), t)]
      w3 == [w2 EXCEPT !.fs = writeFileSync(@, DATA_DIR, id \o ".json", metadata, t)]
  IN  IF DATA_DIR \notin w0.dirs THEN Out(w1, asrFailed)
      ELSE IF r.fault \in {"openBlob", "writeBlob"}
        THEN Out([w1 EXCEPT !.fs = failedWrite(@, DATA_DIR, id \o ext, r.fault, t)],
                 asrFailed)
      ELSE IF r.fault \in {"openMeta", "writeMeta"}
        THEN Out([w2 EXCEPT !.fs = failedWrite(@, DATA_DIR, id \o ".json", r.fault, t)],
                 asrFailed)
      ELSE Out(w3, Response(200, [ok |-> TRUE] @@ metadata))

-----------------------------------------------------------------------------
(* POST /api/samples/link *)

linkFailed == Response(500, [ok |-> FALSE, error |-> "Linking failed"])

\* const { ... } = payload || {}: the keys a JSON null (or a non-object) lacks
NoFields ==
  [term |-> JUndef, category |-> JUndef, enText |-> JUndef, htText |-> JUndef,
   enAudioId |-> JUndef, htAudioId |-> JUndef, annotator |-> JUndef,
   consent |-> JUndef]

payloadOf(r) == IF r.json = "object" THEN r.p ELSE NoFields

\* (a validation that also demands enText)
linkRejectsEnText(p, consent) ==
  \/ ~Truthy(p.term)
  \/ ~Truthy(p.category)
  \/ ~Truthy(p.enText)
  \/ ~Truthy(p.enAudioId)
  \/ ~Truthy(p.htAudioId)
  \/ ~Truthy(consent)

\* the validation of the partitioned server
linkRejects(p, consent) ==
  \/ ~Truthy(p.term)
  \/ ~Truthy(p.category)
  \/ ~Truthy(p.enAudioId)
  \/ ~Truthy(p.htAudioId)
  \/ ~Truthy(consent)

\* the validation of server.js: consent is not looked at
flatLinkRejects(p) ==
  \/ ~Truthy(p.term)
  \/ ~Truthy(p.category)
  \/ ~Truthy(p.enAudioId)
  \/ ~Truthy(p.htAudioId)

linkRecord(sampleId, t, p, annotator, consent) ==
  [kind |-> "pair",
   sampleId |-> sampleId,
   createdAt |-> t,
   term |-> p.term,
   category |-> p.category,
   annotator |-> annotator,
   consent |-> Truthy(consent),
   en |-> [text |-> OrElse(p.enText, p.term), audioRef |-> p.enAudioId],
   ht |-> [text |-> OrElse(p.htText, JStr("")), audioRef |-> p.htAudioId]]

flatLinkRecord(sampleId, t, p, annotator) ==
  [kind |-> "pair",
   sampleId |-> sampleId,
   createdAt |-> t,
   term |-> p.term,
   category |-> p.category,
   annotator |-> annotator,
   en |-> [text |-> OrElse(p.enText, p.term), audioRef |-> p.enAudioId],
   ht |-> [text |-> OrElse(p.htText, JStr("")), audioRef |-> p.htAudioId]]

\* (a handler that stores the record before it validates the payload)
linkPostEager(w, r) ==
  LET t == w.now + r.dt
      w1 == [w EXCEPT !.now = t, !.dirs = mkdirSync(@, PAIRS_DIR)]
      p == payloadOf(r)
      annotator == Default(p.annotator, JStr("anonymous"))
      consent == Default(p.consent, JBool(FALSE))
      sampleId == randomUUID(w)
      record == linkRecord(sampleId, t, p, annotator, consent)
      w3 == [w1 EXCEPT !.issued = @ \cup {sampleId},
                       !.fs = writeFileSync(@, PAIRS_DIR, sampleId \o ".pair.json",
                                            record, t)]
  IN  IF r.json = "malformed" \/ ~readBody(r.chunks).ok THEN Out(w1, linkFailed)
      ELSE IF linkRejects(p, consent)
        THEN Out(w3, Response(400, [ok |-> FALSE,
                       error |-> "Missing required fields or consent=false"]))
      ELSE Out(w3, Response(200, [ok |-> TRUE, sampleId |-> sampleId,
                                  record |-> record]))

linkPost(w, r) ==
  LET t == w.now + r.dt
      w0 == [w EXCEPT !.now = t]
      w1 == [w0 EXCEPT !.dirs = mkdirSync(@, PAIRS_DIR)]
      body == readBody(r.chunks)
      p == payloadOf(r)
      annotator == Default(p.annotator, JStr("anonymous"))
      consent == Default(p.consent, JBool(FALSE))
      sampleId == randomUUID(w)
      record == linkRecord(sampleId, t, p, annotator, consent)
      name == sampleId \o ".pair.json"
      w2 == [w1 EXCEPT !.issued = @ \cup {sampleId}]
      w3 == [w2 EXCEPT !.fs = writeFileSync(@, PAIRS_DIR, name, record, t)]
  IN  IF r.fault = "mkdir" THEN Out(w0, linkFailed)
      ELSE IF ~body.ok THEN Out(w1, linkFailed)
      ELSE IF r.json = "malformed" THEN Out(w1, linkFailed)
      ELSE IF linkRejects(p, consent)
        THEN Out(w1, Response(400, [ok |-> FALSE,
                       error |-> "Missing required fields or consent=false"]))
      ELSE IF r.fault \in {"openPair", "writePair"}
        THEN Out([w2 EXCEPT !.fs = failedWrite(@, PAIRS_DIR, name, r.fault, t)],
                 linkFailed)
      ELSE Out(w3, Response(200, [ok |-> TRUE, sampleId |-> sampleId,
                                  record |-> record]))

flatLinkPost(w, r) ==
  LET t == w.now + r.dt
      w0 == [w EXCEPT !.now = t, !.dirs = ensureDirFlat(@, DATA_DIR, r.fault)]
      body == readBodyFlat(r.chunks)
      p == payloadOf(r)
      annotator == Default(p.annotator, JStr("anonymous"))
      sampleId == randomUUID(w)
      record == flatLinkRecord(sampleId, t, p, annotator)
      name == sampleId \o ".pair.json"
      w1 == [w0 EXCEPT !.issued = @ \cup {sampleId}]
      w2 == [w1 EXCEPT !.fs = writeFileSync(@, DATA_DIR, name, record, t)]
  IN  IF r.json = "malformed" THEN Out(w0, linkFailed)
      ELSE IF flatLinkRejects(p)
        THEN Out(w0, Response(400, [ok |-> FALSE, error |-> "Missing required fields"]))
      ELSE IF DATA_DIR \notin w0.dirs THEN Out(w1, linkFailed)
      ELSE IF r.fault \in {"openPair", "writePair"}
        THEN Out([w1 EXCEPT !.fs = failedWrite(@, DATA_DIR, name, r.fault, t)],
                 linkFailed)
      ELSE Out(w2, Response(200, [ok |-> TRUE, sampleId |-> sampleId,
                                  record |-> record]))

-----------------------------------------------------------------------------
(* GET /api/samples *)

listFailed == Response(500, [ok |-> FALSE, error |-> "List failed"])

\* Array.prototype.sort is stable: the elements of s ordered by Before, those
\* Before does not order keeping the order they have in s
StableSort(s, Before(_, _)) ==
  LET n == Len(s)
      rank == [i \in 1..n |->
                 Cardinality({j \in 1..n : Before(s[j], s[i]) \/
                                (~Before(s[i], s[j]) /\ j < i)}) + 1]
  IN  IF rank = << >> THEN << >>
      ELSE [k \in 1..n |-> s[CHOOSE i \in 1..n : rank[i] = k]]

\* fs.readdirSync(dir): the names in dir, in directory order (by ino, or the
\* reverse: the order is the filesystem's)
readdirSync(files, dir, rev) ==
  LET entries == {p \in DOMAIN files : p[1] = dir}
      n == Cardinality(entries)
      pos == [p \in entries |->
                Cardinality({q \in entries : files[q].ino < files[p].ino}) + 1]
  IN  IF pos = << >> THEN << >>
      ELSE [k \in 1..n |->
              CHOOSE p \in entries : pos[p] = (IF rev THEN n + 1 - k ELSE k)]

\* .filter(f => f.endsWith(suffix))
filterSuffix(ps, suffix) ==
  LET keep(p) == endsWith(p[2], suffix) IN SelectSeq(ps, keep)

\* (the comparator with its operands exchanged)
sortOldestFirst(files, ps) ==
  LET older(p, q) == files[p].mtime < files[q].mtime IN StableSort(ps, older)

\* .sort((a, b) => b.m - a.m): newest first
sortNewestFirst(files, ps) ==
  LET newer(p, q) == files[p].mtime > files[q].mtime IN StableSort(ps, newer)

\* (a page one entry short)
sliceShort(s, n) == IF Len(s) <= n - 1 THEN s ELSE SubSeq(s, 1, n - 1)

\* .slice(0, n)
slice(s, n) == IF Len(s) <= n THEN s ELSE SubSeq(s, 1, n)

\* (a parse that returns every record without its createdAt)
parseAllUndated(files, ps) ==
  LET parses(p) == files[p].data.kind \notin {"corrupt", "blob"}
      good == SelectSeq(ps, parses)
      undated(d) == [k \in DOMAIN d \ {"createdAt"} |-> d[k]]
  IN  [k \in 1..Len(good) |-> undated(files[good[k]].data)]

\* .map(parse).filter(Boolean): the files JSON.parse rejects are dropped
parseAll(files, ps) ==
  LET parses(p) == files[p].data.kind \notin {"corrupt", "blob"}
      good == SelectSeq(ps, parses)
  IN  [k \in 1..Len(good) |-> files[good[k]].data]

\* (a listing that parses every collected file and then takes the page)
listItemsParseFirst(files, collect) ==
  slice(parseAll(files, sortNewestFirst(files, collect)), PAGE_SIZE)

listItems(files, collect) ==
  parseAll(files, slice(sortNewestFirst(files, collect), PAGE_SIZE))

\* (a collection that reads the pairs directory whatever the kind)
collectAll(files, kind, rev) ==
  (IF kind = "audio" \/ kind = "all"
     THEN filterSuffix(readdirSync(files, AUDIO_EN_DIR, rev), ".json")
            \o filterSuffix(readdirSync(files, AUDIO_HT_DIR, rev), ".json")
     ELSE <<>>)
  \o filterSuffix(readdirSync(files, PAIRS_DIR, rev), ".pair.json")

collect(files, kind, rev) ==
  (IF kind = "audio" \/ kind = "all"
     THEN filterSuffix(readdirSync(files, AUDIO_EN_DIR, rev), ".json")
            \o filterSuffix(readdirSync(files, AUDIO_HT_DIR, rev), ".json")
     ELSE <<>>)
  \o
  (IF kind = "pair" \/ kind = "all"
     THEN filterSuffix(readdirSync(files, PAIRS_DIR, rev), ".pair.json")
     ELSE <<>>)

\* the directories a listing of the kind reads with readdirSync
scanned(kind) ==
  (IF kind = "audio" \/ kind = "all" THEN {AUDIO_EN_DIR, AUDIO_HT_DIR} ELSE {})
    \cup (IF kind = "pair" \/ kind = "all" THEN {PAIRS_DIR} ELSE {})

\* a listing that creates no directory before it reads
listDirsNone(ds, kind) == ds

listDirs(ds, kind) ==
  LET d0 == mkdirSync(ds, DATA_ROOT)
      d1 == IF kind = "audio" \/ kind = "all"
              THEN mkdirSync(mkdirSync(d0, AUDIO_EN_DIR), AUDIO_HT_DIR) ELSE d0
  IN  IF kind = "pair" \/ kind = "all" THEN mkdirSync(d1, PAIRS_DIR) ELSE d1

listGet(w, r) ==
  LET kind == toLowerCase(IF r.kind = "" THEN "all" ELSE r.kind)
      w1 == [w EXCEPT !.dirs = listDirs(@, kind)]
      items == listItems(w.fs, collect(w.fs, kind, r.rev))
  IN  IF r.fault = "mkdir" THEN Out(w, listFailed)
      ELSE IF r.fault = "readdir" THEN Out(w1, listFailed)
      \* readdirSync of a directory that does not exist throws ENOENT
      ELSE IF ~(scanned(kind) \subseteq w1.dirs) THEN Out(w1, listFailed)
      ELSE Out(w1, Response(200, [ok |-> TRUE, count |-> Len(items),
                                  kind |-> kind, items |-> items]))

\* the filter of server.js over the one directory
flatSelect(ps, kind) ==
  LET keep(p) ==
        IF kind = "audio"
          THEN endsWith(p[2], ".json") /\ ~endsWith(p[2], ".pair.json")
        ELSE IF kind = "pair" THEN endsWith(p[2], ".pair.json")
        ELSE endsWith(p[2], ".json")
  IN  SelectSeq(ps, keep)

flatListGet(w, r) ==
  LET w1 == [w EXCEPT !.dirs = ensureDirFlat(@, DATA_DIR, r.fault)]
      kind == toLowerCase(IF r.kind = "" THEN "all" ELSE r.kind)
      selected == flatSelect(readdirSync(w.fs, DATA_DIR, r.rev), kind)
      items == listItems(w.fs, selected)
  IN  IF DATA_DIR \notin w1.dirs \/ r.fault = "readdir" THEN Out(w1, listFailed)
      ELSE Out(w1, Response(200, [ok |-> TRUE, count |-> Len(items),
                                  kind |-> kind, items |-> items]))

-----------------------------------------------------------------------------
(* The request listener: URL, CORS headers, OPTIONS, health, static files, 404 *)

\* String.prototype.startsWith
startsWith(s, prefix) ==
  /\ Len(prefix) <= Len(s)
  /\ SubSeq(s, 1, Len(prefix)) = prefix

\* String.prototype.indexOf(c, from), Len(s) + 1 when c does not occur
RECURSIVE indexFrom(_, _, _)
indexFrom(s, c, from) ==
  IF from > Len(s) \/ charAt(s, from) = c THEN from ELSE indexFrom(s, c, from + 1)

\* pathname.split('/')[3] of a pathname that starts with /api/asr/ ("" when
\* the split has no fourth part or an empty one)
parts3(pathname) ==
  LET from == Len("/api/asr/") + 1
  IN  IF ~startsWith(pathname, "/api/asr/") THEN ""
      ELSE SubSeq(pathname, from, indexFrom(pathname, "/", from) - 1)

\* new URL(req.url, `http://${req.headers.host}`) throws a TypeError for a base
\* without a host and for the request target "//"
urlThrows(r) == r.host = "" \/ r.path = "//"

\* (an if-chain that takes the ingest path for any method)
routeOfAnyMethod(method, pathname) ==
  IF pathname = "/healthz" /\ method = "GET" THEN "healthz"
  ELSE IF method = "GET" /\ (pathname = "/" \/ pathname = "/index.html") THEN "index"
  ELSE IF method = "GET" /\ startsWith(pathname, "/public/") THEN "public"
  ELSE IF startsWith(pathname, "/api/asr/") THEN "asr"
  ELSE IF pathname = "/api/samples/link" /\ method = "POST" THEN "link"
  ELSE IF pathname = "/api/samples" /\ method = "GET" THEN "list"
  ELSE "none"

\* the if-chain of the listener, after the OPTIONS check
routeOf(method, pathname) ==
  IF pathname = "/healthz" /\ method = "GET" THEN "healthz"
  ELSE IF method = "GET" /\ (pathname = "/" \/ pathname = "/index.html") THEN "index"
  ELSE IF method = "GET" /\ startsWith(pathname, "/public/") THEN "public"
  ELSE IF startsWith(pathname, "/api/asr/") /\ method = "POST" THEN "asr"
  ELSE IF pathname = "/api/samples/link" /\ method = "POST" THEN "link"
  ELSE IF pathname = "/api/samples" /\ method = "GET" THEN "list"
  ELSE "none"

ALLOWED_ORIGIN == "https://translator-voice-en-ht.netlify.app"

\* the names of the CORS headers set before routing
corsHeaders(lay, e, origin) ==
  IF lay = "flat"
    THEN {"Access-Control-Allow-Origin", "Access-Control-Allow-Methods",
          "Access-Control-Allow-Headers"}
    ELSE (IF e # "production" \/ origin = ALLOWED_ORIGIN
            THEN {"Access-Control-Allow-Origin"} ELSE {})
         \cup {"Access-Control-Allow-Methods", "Access-Control-Allow-Headers",
               "Access-Control-Max-Age"}

\* res.end() with no data
EmptyBody == << >>

\* no response is written: the connection stays open without an answer
Unanswered ==
  [status |-> 0, body |-> EmptyBody, headers |-> {}, type |-> "none", sent |-> 0]

\* a URL the listener cannot parse: the partitioned server's outer catch answers
\* 500 before any header was set; in server.js the listener's promise rejects
badUrl(lay, w) ==
  IF lay = "partitioned"
    THEN Out(w, Response(500, [ok |-> FALSE, error |-> "Internal server error"])
                  @@ [headers |-> {}])
    ELSE Out(w, Unanswered)

options(w) == Out(w, Response(204, EmptyBody) @@ [type |-> "none"])

healthz(lay, e, w) ==
  IF lay = "partitioned"
    THEN Out(w, Response(200, [ok |-> TRUE, service |-> "translator-voice-en-ht",
                               version |-> "0.1.0", timestamp |-> w.now,
                               environment |-> e,
                               diskSpace |-> [dataDir |-> DATA_ROOT,
                                              exists |-> DATA_ROOT \in w.dirs]]))
    ELSE Out(w, Response(200, [ok |-> TRUE, service |-> "translator-lab0"]))

\* path.extname of the static paths served
extname(absPath) ==
  IF endsWith(absPath, ".html") THEN ".html"
  ELSE IF endsWith(absPath, ".js") THEN ".js"
  ELSE IF endsWith(absPath, ".css") THEN ".css"
  ELSE IF endsWith(absPath, ".json") THEN ".json"
  ELSE ""

\* serveFile: the file with its type, or 404 in plain text when it cannot be read
serveFile(w, absPath, readable) ==
  LET ext == extname(absPath)
      type == CASE ext = ".html" -> "text/html; charset=utf-8"
                [] ext = ".js" -> "text/javascript; charset=utf-8"
                [] ext = ".css" -> "text/css; charset=utf-8"
                [] ext = ".json" -> "application/json; charset=utf-8"
                [] OTHER -> "application/octet-stream"
  IN  IF readable
        THEN Out(w, Response(200, [file |-> absPath]) @@ [type |-> type])
        ELSE Out(w, Response(404, [text |-> "Not found"])
                      @@ [type |-> "text/plain; charset=utf-8"])

static(w, r) ==
  serveFile(w, IF routeOf(r.method, r.path) = "index" THEN "public/index.html"
               ELSE r.path, r.readable)

notFound(w) == Out(w, Response(404, [error |-> "Not found"]))

-----------------------------------------------------------------------------
(* Requests *)

Layouts == {"partitioned", "flat"}

Envs == {"development", "production"}

LocalHost == "localhost:8080"

ValidPayload ==
  [term |-> JStr("Diabetes"), category |-> JStr("medical"), enText |-> JUndef,
   htText |-> JUndef, enAudioId |-> JStr("x"), htAudioId |-> JStr("y"),
   annotator |-> JUndef, consent |-> JBool(TRUE)]

AsrReq(lang, ct, chunks, fault, dt) ==
  [route |-> "asr", method |-> "POST", path |-> "/api/asr/" \o lang,
   host |-> LocalHost, origin |-> "", lang |-> lang, ct |-> ct,
   chunks |-> chunks, fault |-> fault, dt |-> dt]

LinkReq(json, p, chunks, fault, dt) ==
  [route |-> "link", method |-> "POST", path |-> "/api/samples/link",
   host |-> LocalHost, origin |-> "", json |-> json, p |-> p,
   chunks |-> chunks, fault |-> fault, dt |-> dt]

ListReq(kind, rev, fault) ==
  [route |-> "list", method |-> "GET", path |-> "/api/samples",
   host |-> LocalHost, origin |-> "", kind |-> kind, rev |-> rev,
   fault |-> fault]

\* The requests of Spec: few values per input, several requests in a row
LeanAsr ==
  {AsrReq(lang, "audio/webm", chunks, "none", dt) :
     lang \in {"en", "ht", "fr"},
     chunks \in {<<3>>, <<MAX_FILE_SIZE, 1>>},
     dt \in {0, 1}}

LeanLink ==
  {LinkReq("object", p, <<120>>, "none", 1) :
     p \in {ValidPayload,
            [ValidPayload EXCEPT !.consent = JUndef],
            [ValidPayload EXCEPT !.category = JUndef]}}
  \cup {LinkReq("malformed", NoFields, <<120>>, "none", 1)}

LeanList ==
  {ListReq(kind, rev, "none") :
     kind \in {"", "audio", "pair", "all", "bogus"}, rev \in BOOLEAN}

\* The requests of SpecReq: every combination of the inputs of one request
ChunkSizes == {1, MAX_FILE_SIZE}

Bodies == UNION {[1..n -> ChunkSizes] : n \in 0..MaxChunks}

RichAsr ==
  {AsrReq(lang, ct, chunks, fault, dt) :
     lang \in {"en", "ht", "HT", "fr", ""},
     ct \in {"audio/webm", "Audio/WAV; codecs=1", "audio/mpeg", "audio/mp3",
             "AUDIO/OGG", "video/webm", "x-audio/wave", ""},
     chunks \in Bodies,
     fault \in {"none", "mkdir", "mkdirManifests", "openBlob", "writeBlob",
                "openMeta", "writeMeta"},
     dt \in {0, 1}}

RichPayloads ==
  [term : {JUndef, JStr(""), JStr("Diabetes")},
   category : {JUndef, JStr("medical")},
   enText : {JUndef, JStr(""), JStr("diabetes")},
   htText : {JUndef, JStr(""), JStr("dyabet")},
   enAudioId : {JUndef, JStr("x")},
   htAudioId : {JUndef, JStr("y")},
   annotator : {JUndef, JStr(""), JStr("wally")},
   consent : {JUndef, JBool(FALSE), JBool(TRUE), JStr("no")}]

RichLink ==
  {LinkReq("object", p, chunks, fault, 1) :
     p \in RichPayloads,
     chunks \in {<<120>>, <<MAX_FILE_SIZE, 120>>},
     fault \in {"none", "mkdir", "openPair", "writePair"}}
  \cup {LinkReq(json, NoFields, <<120>>, "none", 1) : json \in {"malformed", "null"}}

RichList ==
  {ListReq(kind, rev, fault) :
     kind \in {"", "audio", "pair", "all", "ALL", "Pair", "bogus"},
     rev \in BOOLEAN,
     fault \in {"none", "mkdir", "readdir"}}

\* The requests of SpecConc: bodies of several sizes, in one chunk or two
ConcReqs ==
  {AsrReq(lang, "audio/webm", chunks, "none", dt) :
     lang \in {"en", "ht"}, chunks \in {<<3>>, <<2, 2>>}, dt \in {0}}
  \cup {AsrReq("en", "audio/webm", <<3>>, "none", 1),
        AsrReq("en", "audio/webm", <<MAX_FILE_SIZE, 1>>, "none", 0),
        LinkReq("object", ValidPayload, <<120>>, "none", 1)}

ConcList == {ListReq("all", FALSE, "none")}

\* The requests of SpecPage: writes and lists around the page boundary
PageAsr == {AsrReq(lang, "audio/webm", <<3>>, "none", 1) : lang \in {"en", "ht"}}

PageLink == {LinkReq("object", ValidPayload, <<120>>, "none", 1)}

PageList == {ListReq(kind, rev, "none") : kind \in {"all", "audio"}, rev \in BOOLEAN}

\* The requests of SpecEdge, all within the clock tick of the last write
EdgeAsr ==
  {AsrReq("en", "audio/webm", <<3>>, fault, 0) :
     fault \in {"none", "writeBlob", "openMeta", "writeMeta"}}

EdgeLink == {LinkReq("object", ValidPayload, <<120>>, "none", 0)}

EdgeList ==
  {ListReq(kind, rev, "none") : kind \in {"all", "audio", "pair"}, rev \in BOOLEAN}

\* The requests of SpecRouter: every method on every path, from every origin
Methods == {"GET", "POST", "PUT", "OPTIONS"}

Paths ==
  {"/healthz", "/", "/index.html", "/public/app.js", "/api/asr/en", "/api/asr/",
   "/api/asr/ht/x", "/api/asr", "/api/samples/link", "/api/samples", "/nope", "//"}

Origins == {"", ALLOWED_ORIGIN, "https://evil.example"}

RouterReq(method, path, host, origin, readable) ==
  LET target == [method |-> method, path |-> path, host |-> host]
  IN  [route |-> IF urlThrows(target) THEN "error"
                 ELSE IF method = "OPTIONS" THEN "options"
                 ELSE routeOf(method, path),
       method |-> method, path |-> path, host |-> host, origin |-> origin,
       readable |-> readable, lang |-> parts3(path), ct |-> "audio/webm",
       chunks |-> <<3>>, fault |-> "none", dt |-> 1, json |-> "object",
       p |-> ValidPayload, kind |-> "", rev |-> FALSE]

RouterReqs ==
  {RouterReq(method, path, LocalHost, origin, readable) :
     method \in Methods, path \in Paths, origin \in Origins, readable \in BOOLEAN}
  \cup {RouterReq("GET", "/healthz", "", origin, TRUE) : origin \in Origins}

-----------------------------------------------------------------------------
(* Stores *)

EmptyWorld == [dirs |-> {}, fs |-> << >>, now |-> 0, issued |-> {}]

\* The i-th request of the run that filled a store: en clip, ht clip, pair,
\* and so on, two writes per clock tick
FillReq(i) ==
  IF i % 3 = 0 THEN LinkReq("object", ValidPayload, <<120>>, "none", i % 2)
  ELSE AsrReq(IF i % 3 = 1 THEN "en" ELSE "ht", "audio/webm", <<3>>, "none", i % 2)

Handle(lay, w, r) ==
  IF lay = "partitioned"
    THEN CASE r.route = "asr" -> asrPost(w, r)
           [] r.route = "link" -> linkPost(w, r)
           [] OTHER -> listGet(w, r)
    ELSE CASE r.route = "asr" -> flatAsrPost(w, r)
           [] r.route = "link" -> flatLinkPost(w, r)
           [] OTHER -> flatListGet(w, r)

\* The world after requests lo..hi of that run, started in w (the tests of
\* the clock make TLC evaluate each intermediate world before it goes on)
RECURSIVE Run(_, _, _, _)
Run(lay, w, lo, hi) ==
  IF lo > hi \/ w.now < 0 THEN w
  ELSE IF lo = hi THEN Handle(lay, w, FillReq(lo)).w
  ELSE LET mid == (lo + hi) \div 2
           half == Run(lay, w, lo, mid)
       IN  IF half.now < 0 THEN half ELSE Run(lay, half, mid + 1, hi)

\* The store after the first n requests of that run
Store(lay, n) == Run(lay, EmptyWorld, 1, n)

\* The i-th request of a run that left a store in a state of interest.
\* "burst": the requests of FillReq all within one tick of the clock.
\* "torn": the requests of FillReq where the first ingest fails while it
\* writes its blob, the second when it opens its sidecar, and every fourth
\* request from the sixth on fails while it writes its sidecar or pair file.
FillReqIn(mode, i) ==
  LET r == FillReq(i)
  IN  IF mode = "burst" THEN [r EXCEPT !.dt = 0]
      ELSE [r EXCEPT !.fault =
              IF i = 1 THEN "writeBlob"
              ELSE IF i = 2 THEN "openMeta"
              ELSE IF i % 4 # 2 THEN "none"
              ELSE IF r.route = "asr" THEN "writeMeta" ELSE "writePair"]

RECURSIVE RunIn(_, _, _, _, _)
RunIn(mode, lay, w, lo, hi) ==
  IF lo > hi \/ w.now < 0 THEN w
  ELSE IF lo = hi THEN Handle(lay, w, FillReqIn(mode, lo)).w
  ELSE LET mid == (lo + hi) \div 2
           half == RunIn(mode, lay, w, lo, mid)
       IN  IF half.now < 0 THEN half ELSE RunIn(mode, lay, half, mid + 1, hi)

\* The store after the first n requests of such a run
StoreIn(mode, lay, n) == RunIn(mode, lay, EmptyWorld, 1, n)

-----------------------------------------------------------------------------
(* The state machine *)

NoReq == [route |-> "none"]
NoResp == Response(0, [ok |-> FALSE])

Init ==
  /\ layout \in Layouts
  /\ env = "development"
  /\ pending = {}
  /\ seen = {}
  /\ written = {}
  /\ dirs = {}
  /\ fs = << >>
  /\ now = 0
  /\ issued = {}
  /\ left = MaxReqs
  /\ req = NoReq
  /\ resp = NoResp

\* the records the list call answered last returned, with its kind
listedBy(r, a) ==
  IF r.route = "list" /\ a.status = 200
    THEN {<<a.body.kind, a.body.items[k]>> : k \in DOMAIN a.body.items}
    ELSE {}

\* the record a 200 response of an ingest or a link request carries
writtenBy(r, a) ==
  IF a.status # 200 THEN {}
  ELSE IF r.route = "asr" THEN {[k \in DOMAIN a.body \ {"ok"} |-> a.body[k]]}
  ELSE IF r.route = "link" THEN {a.body.record}
  ELSE {}

\* The handler of request r ends with outcome out: its effect on the data
\* directory and the response, sent once with the headers set before routing
Respond(r, out) ==
  /\ layout' = layout
  /\ env' = env
  /\ dirs' = out.w.dirs
  /\ fs' = out.w.fs
  /\ now' = out.w.now
  /\ issued' = out.w.issued
  /\ seen' = seen \cup listedBy(req, resp)
  /\ written' = written \cup writtenBy(r, out.resp)
  /\ req' = r
  /\ resp' = out.resp @@ [headers |-> corsHeaders(layout, env, r.origin),
                          type |-> "application/json", sent |-> 1]

\* a request handled from its arrival to its response with nothing in between
Answer(r, out) ==
  /\ left' = left - 1
  /\ pending' = pending
  /\ Respond(r, out)

\* the request passes the listener's checks and its if-chain selects route
routed(r, route) ==
  /\ ~urlThrows(r)
  /\ r.method # "OPTIONS"
  /\ routeOf(r.method, r.path) = route

AsrPost(reqs) ==
  /\ layout = "partitioned"
  /\ left > 0
  /\ \E r \in reqs : routed(r, "asr") /\ Answer(r, asrPost(World, r))

LinkPost(reqs) ==
  /\ layout = "partitioned"
  /\ left > 0
  /\ \E r \in reqs : routed(r, "link") /\ Answer(r, linkPost(World, r))

ListGet(reqs) ==
  /\ layout = "partitioned"
  /\ left > 0
  /\ \E r \in reqs : routed(r, "list") /\ Answer(r, listGet(World, r))

FlatAsrPost(reqs) ==
  /\ layout = "flat"
  /\ left > 0
  /\ \E r \in reqs : routed(r, "asr") /\ Answer(r, flatAsrPost(World, r))

FlatLinkPost(reqs) ==
  /\ layout = "flat"
  /\ left > 0
  /\ \E r \in reqs : routed(r, "link") /\ Answer(r, flatLinkPost(World, r))

FlatListGet(reqs) ==
  /\ layout = "flat"
  /\ left > 0
  /\ \E r \in reqs : routed(r, "list") /\ Answer(r, flatListGet(World, r))

Options(reqs) ==
  /\ left > 0
  /\ \E r \in reqs :
       /\ ~urlThrows(r)
       /\ r.method = "OPTIONS"
       /\ Answer(r, options(World))

Healthz(reqs) ==
  /\ left > 0
  /\ \E r \in reqs : routed(r, "healthz") /\ Answer(r, healthz(layout, env, World))

ServeStatic(reqs) ==
  /\ left > 0
  /\ \E r \in reqs, route \in {"index", "public"} :
       routed(r, route) /\ Answer(r, static(World, r))

NotFound(reqs) ==
  /\ left > 0
  /\ \E r \in reqs : routed(r, "none") /\ Answer(r, notFound(World))

BadUrl(reqs) ==
  /\ left > 0
  /\ \E r \in reqs : urlThrows(r) /\ Answer(r, badUrl(layout, World))

\* what a handler that reads a body does before `await readBody(req)`
beforeAwait(lay, w, r) ==
  IF lay = "flat" THEN [w EXCEPT !.dirs = ensureDirFlat(@, DATA_DIR, r.fault)]
  ELSE IF r.route = "link" THEN [w EXCEPT !.dirs = mkdirSync(@, PAIRS_DIR)]
  ELSE w

\* An ingest or link request arrives: its handler runs up to `await readBody`
\* and waits there for the body while other requests are served (requests
\* whose directory creation and writes succeed)
Receive(reqs) ==
  /\ left > 0
  /\ \E r \in reqs :
       /\ r.route \in {"asr", "link"}
       /\ routed(r, r.route)
       /\ r.fault = "none"
       /\ left' = left - 1
       /\ pending' = pending \cup {[n |-> left, r |-> r]}
       /\ dirs' = beforeAwait(layout, World, r).dirs
       /\ UNCHANGED <<layout, env, fs, now, issued, seen, written, req, resp>>

\* The body of a waiting request has been read (or has grown over the limit):
\* the rest of its handler runs to the response without another await
Resume ==
  \E e \in pending :
    /\ left' = left
    /\ pending' = pending \ {e}
    /\ Respond([n |-> e.n] @@ e.r, Handle(layout, World, e.r))

Next ==
  \/ AsrPost(LeanAsr)
  \/ LinkPost(LeanLink)
  \/ ListGet(LeanList)
  \/ FlatAsrPost(LeanAsr)
  \/ FlatLinkPost(LeanLink)
  \/ FlatListGet(LeanList)

Spec == Init /\ [][Next]_vars

\* One request, any inputs, on an empty store or a store with records
InitReq ==
  /\ layout \in Layouts
  /\ env = "development"
  /\ pending = {}
  /\ seen = {}
  /\ written = {}
  /\ \E n \in {0, 3} :
       LET w == Store(layout, n)
       IN  /\ dirs = w.dirs
           /\ fs = w.fs
           /\ now = w.now
           /\ issued = w.issued
  /\ left = 1
  /\ req = NoReq
  /\ resp = NoResp

NextReq ==
  \/ AsrPost(RichAsr)
  \/ LinkPost(RichLink)
  \/ ListGet(RichList)
  \/ FlatAsrPost(RichAsr)
  \/ FlatLinkPost(RichLink)
  \/ FlatListGet(RichList)

SpecReq == InitReq /\ [][NextReq]_vars

\* One request of any method on any path, either NODE_ENV
InitRouter ==
  /\ layout \in Layouts
  /\ env \in Envs
  /\ pending = {}
  /\ seen = {}
  /\ written = {}
  /\ \E n \in {0, 3} :
       LET w == Store(layout, n)
       IN  /\ dirs = w.dirs
           /\ fs = w.fs
           /\ now = w.now
           /\ issued = w.issued
  /\ left = 1
  /\ req = NoReq
  /\ resp = NoResp

NextRouter ==
  \/ Options(RouterReqs)
  \/ Healthz(RouterReqs)
  \/ ServeStatic(RouterReqs)
  \/ NotFound(RouterReqs)
  \/ BadUrl(RouterReqs)
  \/ AsrPost(RouterReqs)
  \/ LinkPost(RouterReqs)
  \/ ListGet(RouterReqs)
  \/ FlatAsrPost(RouterReqs)
  \/ FlatLinkPost(RouterReqs)
  \/ FlatListGet(RouterReqs)

SpecRouter == InitRouter /\ [][NextRouter]_vars

\* MaxReqs requests on a store that fills the page of a list, or nearly
InitPage ==
  /\ layout \in Layouts
  /\ env = "development"
  /\ pending = {}
  /\ seen = {}
  /\ written = {}
  /\ \E n \in {MaxStoreFiles - 3, MaxStoreFiles - 2} :
       LET w == Store(layout, n)
       IN  /\ dirs = w.dirs
           /\ fs = w.fs
           /\ now = w.now
           /\ issued = w.issued
  /\ left = MaxReqs
  /\ req = NoReq
  /\ resp = NoResp

NextPage ==
  \/ AsrPost(PageAsr)
  \/ LinkPost(PageLink)
  \/ ListGet(PageList)
  \/ FlatAsrPost(PageAsr)
  \/ FlatLinkPost(PageLink)
  \/ FlatListGet(PageList)

SpecPage == InitPage /\ [][NextPage]_vars

\* Requests on a store that a burst of requests within one clock tick filled up
\* to the page size, or that a run with failed writes filled beyond it
InitEdge ==
  /\ layout \in Layouts
  /\ env = "development"
  /\ pending = {}
  /\ seen = {}
  /\ written = {}
  /\ \E mode \in {"burst", "torn"} :
       LET w == StoreIn(mode, layout,
                        IF mode = "burst" THEN MaxStoreFiles - 2 ELSE MaxStoreFiles)
       IN  /\ dirs = w.dirs
           /\ fs = w.fs
           /\ now = w.now
           /\ issued = w.issued
  /\ left = MaxReqs - 1
  /\ req = NoReq
  /\ resp = NoResp

NextEdge ==
  \/ AsrPost(EdgeAsr)
  \/ LinkPost(EdgeLink)
  \/ ListGet(EdgeList)
  \/ FlatAsrPost(EdgeAsr)
  \/ FlatLinkPost(EdgeLink)
  \/ FlatListGet(EdgeList)

SpecEdge == InitEdge /\ [][NextEdge]_vars

\* MaxReqs requests whose handlers overlap in every order the awaits allow
NextConc ==
  \/ Receive(ConcReqs)
  \/ Resume
  \/ ListGet(ConcList)
  \/ FlatListGet(ConcList)

SpecConc == Init /\ [][NextConc]_vars

\* One request on a store of up to MaxStoreFiles records
InitStore ==
  /\ layout \in Layouts
  /\ env = "development"
  /\ pending = {}
  /\ seen = {}
  /\ written = {}
  /\ \E n \in 0..MaxStoreFiles :
       LET w == Store(layout, n)
       IN  /\ dirs = w.dirs
           /\ fs = w.fs
           /\ now = w.now
           /\ issued = w.issued
  /\ left = 1
  /\ req = NoReq
  /\ resp = NoResp

SpecStore == InitStore /\ [][Next]_vars

-----------------------------------------------------------------------------
(* Properties *)

\* this step answers a request
Answered == left' = left - 1

Range(s) == {s[i] : i \in DOMAIN s}

BodySize(r) == SumSeq(r.chunks)

Oversize(r) == BodySize(r) > MAX_FILE_SIZE

\* C1: an ingest whose lang is not exactly en or ht (or is missing) is answered
\* 400 and leaves the files and the directories on disk as they were.
C1_BadLangRejected ==
  [][(Answered /\ req'.route = "asr" /\ req'.lang \notin {"en", "ht"})
       => (resp'.status = 400 /\ fs' = fs /\ dirs' = dirs)]_vars

\* C2: an ingest whose body is larger than MAX_FILE_SIZE fails (partitioned
\* server, the one that has the limit) and no file is created or changed for it:
\* no blob, no sidecar, complete or partial.
C2_OversizeWritesNothing ==
  [][(Answered /\ layout = "partitioned" /\ req'.route = "asr" /\ Oversize(req'))
       => (resp'.status # 200 /\ resp'.body.ok = FALSE /\ fs' = fs)]_vars

C2_Witness ==
  /\ layout = "partitioned"
  /\ req.route = "asr"
  /\ req.chunks = <<MAX_FILE_SIZE, 1>>
  /\ req.fault = "none"
  /\ resp.status = 500
  /\ fs # << >>

\* C3: an ingest whose body is larger than MAX_FILE_SIZE is answered 413 or 400,
\* never the storage-failure status 500.
C3_OversizeIsPayloadTooLarge ==
  [][(Answered /\ layout = "partitioned" /\ req'.route = "asr" /\ Oversize(req'))
       => (resp'.status \in {413, 400})]_vars

\* C4: a successful ingest returns an id no earlier request of the run was given
\* and that names no file already on disk; the blob stored for it has exactly as
\* many bytes as the payload, and the record's bytes field is that length.
C4_FreshIdExactBytes ==
  [][(Answered /\ req'.route = "asr" /\ resp'.status = 200)
       => LET id == resp'.body.id
              blobs == {p \in DOMAIN fs' : p[2] = resp'.body.audioFile}
          IN  /\ id \notin issued
              /\ \A p \in DOMAIN fs : fs[p].data.kind = "audio" => fs[p].data.id # id
              /\ \A p \in DOMAIN fs : p \notin blobs
              /\ Cardinality(blobs) = 1
              /\ \A p \in blobs : fs'[p].data = Blob(BodySize(req'))
              /\ resp'.body.bytes = BodySize(req')]_vars

C4_Witness ==
  /\ req.route = "asr"
  /\ req.lang \in {"en", "ht"}
  /\ resp.status = 200
  /\ BodySize(req) = MAX_FILE_SIZE
  /\ Cardinality(issued) >= 3
  /\ \E p \in DOMAIN fs : fs[p].data = Blob(MAX_FILE_SIZE)

\* C5: a link request whose consent is false or absent is answered 400 and
\* creates no pair record, whatever term, category, enAudioId and htAudioId are.
C5_NoConsentRejected ==
  [][(Answered /\ req'.route = "link" /\ req'.json = "object"
        /\ req'.p.consent \in {JUndef, JBool(FALSE)})
       => (resp'.status = 400 /\ fs' = fs)]_vars

ValidLink(r) ==
  /\ r.json = "object"
  /\ \A v \in {r.p.term, r.p.category, r.p.enAudioId, r.p.htAudioId} :
       v.t = "string" /\ v.s # ""
  /\ r.p.consent = JBool(TRUE)

LinkSucceeded ==
  /\ resp'.status = 200
  /\ resp'.body.ok
  /\ resp'.body.sampleId \notin issued
  /\ resp'.body.record.sampleId = resp'.body.sampleId
  /\ \E p \in DOMAIN fs' :
       /\ p[2] = resp'.body.sampleId \o ".pair.json"
       /\ p \notin DOMAIN fs
       /\ fs'[p].data = resp'.body.record
       /\ DOMAIN fs' = DOMAIN fs \cup {p}
       /\ \A q \in DOMAIN fs : fs'[q] = fs[q]

LinkCanStore(r) ==
  /\ r.fault = "none"
  /\ layout = "partitioned" => ~Oversize(r)

Missing(p) ==
  {k \in {"term", "category", "enAudioId", "htAudioId"} : ~Truthy(p[k])}

\* C7: a link request rejected for missing fields is answered 400 with a
\* missingFields list that is exactly the required fields absent or empty.
C7_MissingFieldsEnumerated ==
  [][(Answered /\ req'.route = "link" /\ req'.json = "object"
        /\ Missing(req'.p) # {} /\ resp'.status = 400)
       => /\ "missingFields" \in DOMAIN resp'.body
          /\ Range(resp'.body.missingFields) = Missing(req'.p)]_vars

\* C8: a link request whose body is not well-formed JSON is answered 400, not
\* 500, and writes no pair record.
C8_MalformedJsonIs400 ==
  [][(Answered /\ req'.route = "link" /\ req'.json = "malformed")
       => (resp'.status = 400 /\ fs' = fs)]_vars

\* the records the store holds, by kind (what the sidecars and pair files say)
Records(kind) ==
  {fs[p].data : p \in {q \in DOMAIN fs : fs[q].data.kind = kind}}

Listed == req.route = "list" /\ resp.status = 200

\* the file a listed record was read from
FileOf(item) == CHOOSE p \in DOMAIN fs : fs[p].data = item

Matching(kind) ==
  CASE kind = "audio" -> Records("audio")
    [] kind = "pair" -> Records("pair")
    [] OTHER -> Records("audio") \cup Records("pair")

\* C10: a list response has at most 50 items, newest first by the modification
\* time of their files, drawn from the 50 most recently modified matching files,
\* and count is the number of items.
C10_PageNewestFirst ==
  (Listed /\ resp.body.kind \in {"audio", "pair", "all"}) =>
    LET items == resp.body.items
        mtimeOf(i) == fs[FileOf(i)].mtime
    IN  /\ Len(items) <= PAGE_SIZE
        /\ resp.body.count = Len(items)
        /\ \A k \in 1..(Len(items) - 1) : mtimeOf(items[k]) >= mtimeOf(items[k + 1])
        /\ Range(items) \subseteq Matching(resp.body.kind)
        /\ \A i \in Range(items) : \A o \in Matching(resp.body.kind) \ Range(items) :
             mtimeOf(o) <= mtimeOf(i)
        /\ Len(items) = Cardinality(Range(items))

C10_Witness ==
  /\ Listed
  /\ resp.body.kind = "all"
  /\ resp.body.count = PAGE_SIZE
  /\ fs[FileOf(resp.body.items[1])].mtime > fs[FileOf(resp.body.items[PAGE_SIZE])].mtime
  /\ \E o \in Matching("all") \ Range(resp.body.items) :
       fs[FileOf(o)].mtime = fs[FileOf(resp.body.items[PAGE_SIZE])].mtime

\* the files a list of this kind reads, by their names
MatchingFiles(kind) ==
  {p \in DOMAIN fs :
     /\ endsWith(p[2], ".json")
     /\ kind = "audio" => ~endsWith(p[2], ".pair.json")
     /\ kind = "pair" => endsWith(p[2], ".pair.json")}

\* the matching files other than the record's own that are as new as it or newer
AsNewAs(kind, item) ==
  LET own == FileOf(item)
      mtime == fs[own].mtime
  IN  {p \in MatchingFiles(kind) : p # own /\ fs[p].mtime >= mtime}

\* C11 as stated: a record that a list call has returned is returned by every
\* later list call of the same kind, whatever was ingested or linked in between.
C11_SeenStaysListed ==
  Listed => \A e \in seen : e[1] = resp.body.kind => e[2] \in Range(resp.body.items)

\* C11 amended: a record that a list call has returned is returned by every
\* later list call of the same kind for as long as fewer than 50 other matching
\* files are as recently modified as its own file or more recently.
C11_SeenStaysOnPage ==
  Listed =>
    \A e \in seen :
      (e[1] = resp.body.kind /\ Cardinality(AsNewAs(e[1], e[2])) < PAGE_SIZE)
        => e[2] \in Range(resp.body.items)

C11_Witness ==
  /\ Listed
  /\ resp.body.kind = "all"
  /\ \E x \in Range(resp.body.items) : <<"all", x>> \notin seen
  /\ \E e \in seen :
       /\ e[1] = "all"
       /\ e[2] \in Range(resp.body.items)
       /\ Cardinality(AsNewAs("all", e[2])) = PAGE_SIZE - 1

\* C12: every request received is answered exactly once, with a status code;
\* when the handler or the routing code raised an error the answer is a JSON
\* error response (status 500, a body with an error field).
C12_AnsweredOnce ==
  [][Answered
       => /\ resp'.sent = 1
          /\ resp'.status \in 100..599
          /\ resp'.status >= 500 =>
               (resp'.type = "application/json" /\ "error" \in DOMAIN resp'.body)]_vars

\* this step answers a request of another method than OPTIONS whose URL parses
Dispatched == Answered /\ ~urlThrows(req') /\ req'.method # "OPTIONS"

\* the answer of the 404 fallback, with nothing changed on disk
IsNotFound ==
  /\ resp'.status = 404
  /\ resp'.type = "application/json"
  /\ "error" \in DOMAIN resp'.body
  /\ fs' = fs
  /\ dirs' = dirs

\* (method, path) is one of GET /healthz, GET /, GET /public/*,
\* POST /api/asr/{lang}, POST /api/samples/link, GET /api/samples
InDispatchTable(method, path) ==
  \/ method = "GET" /\ path \in {"/healthz", "/", "/api/samples"}
  \/ method = "GET" /\ startsWith(path, "/public/")
  \/ method = "POST" /\ startsWith(path, "/api/asr/")
  \/ method = "POST" /\ path = "/api/samples/link"

\* C13 as stated: a request other than OPTIONS whose (method, path) is not in
\* that table is answered 404 with a JSON body carrying an error field, and
\* changes nothing on disk.
C13_UnmatchedIs404 ==
  [][(Answered /\ req'.method # "OPTIONS" /\ ~InDispatchTable(req'.method, req'.path))
       => IsNotFound]_vars

\* C13 amended: the same for a request whose URL parses and whose (method, path)
\* is neither in that table nor GET /index.html.
C13_UnmatchedParsedIs404 ==
  [][(Dispatched /\ ~InDispatchTable(req'.method, req'.path)
        /\ ~(req'.method = "GET" /\ req'.path = "/index.html"))
       => IsNotFound]_vars

C13_Witness ==
  /\ resp.status = 404
  /\ req.method = "PUT"
  /\ req.path = "/api/samples/link"
  /\ resp.body = [error |-> "Not found"]
  /\ fs # << >>

\* C14: a request to the ingest path /api/asr/{lang} with a method other than
\* POST and OPTIONS is answered 405 Method Not Allowed.
C14_WrongMethodIs405 ==
  [][(Dispatched /\ startsWith(req'.path, "/api/asr/") /\ req'.method # "POST")
       => resp'.status = 405]_vars

CorsHeaders ==
  {"Access-Control-Allow-Origin", "Access-Control-Allow-Methods",
   "Access-Control-Allow-Headers"}

\* C15: every response sent, whatever the route, the status, NODE_ENV and the
\* Origin of the request, carries the three CORS headers; an OPTIONS request is
\* answered 204 with an empty body and changes nothing.
C15_CorsOnEveryResponse ==
  [][(Answered /\ resp'.sent = 1)
       => /\ CorsHeaders \subseteq resp'.headers
          /\ req'.method = "OPTIONS" =>
               /\ resp'.status = 204
               /\ resp'.body = EmptyBody
               /\ fs' = fs
               /\ dirs' = dirs
               /\ issued' = issued]_vars

\* C16: a successful list response for a kind other than audio, pair and all has
\* the items a list of kind all returns on the same store.
C16_UnknownKindIsAll ==
  (Listed /\ resp.body.kind \notin {"audio", "pair", "all"})
    => resp.body.items
         = Handle(layout, World, ListReq("all", req.rev, "none")).resp.body.items

\* C17: in the pair record a successful link creates, en.text is the supplied
\* enText or, when that is absent or empty, the term; ht.text is the supplied
\* htText or ""; annotator is the supplied annotator or "anonymous" when none is
\* supplied; en.audioRef and ht.audioRef are enAudioId and htAudioId as supplied,
\* whether or not an audio record has that id.
C17_RecordDefaults ==
  [][(Answered /\ req'.route = "link" /\ resp'.status = 200)
       => LET p == req'.p
              record == resp'.body.record
          IN  /\ record.en.text
                   = (IF p.enText \in {JUndef, JStr("")} THEN p.term ELSE p.enText)
              /\ record.ht.text
                   = (IF p.htText \in {JUndef, JStr("")} THEN JStr("") ELSE p.htText)
              /\ record.annotator
                   = (IF p.annotator = JUndef THEN JStr("anonymous") ELSE p.annotator)
              /\ record.en.audioRef = p.enAudioId
              /\ record.ht.audioRef = p.htAudioId
              /\ \E f \in DOMAIN fs' \ DOMAIN fs : fs'[f].data = record]_vars

C17_Witness ==
  /\ req.route = "link"
  /\ resp.status = 200
  /\ req.p.enText = JStr("")
  /\ req.p.htText = JUndef
  /\ req.p.annotator = JUndef
  /\ resp.body.record.en.text = JStr("Diabetes")
  /\ resp.body.record.ht.text = JStr("")
  /\ Records("audio") # {}
  /\ \A a \in Records("audio") : JStr(a.id) \notin {req.p.enAudioId, req.p.htAudioId}
  /\ resp.body.record \in Records("pair")

\* this step ends the handler of a request that waited for its body
Resumed == left' = left /\ pending' # pending

\* C18: however ingest requests overlap, the handler of each writes only files
\* no request wrote before: it gets an id not issued before, no file on disk is
\* written again, and the blob and the sidecar it creates hold its own data.
C18_NoSharedPath ==
  [][(Resumed /\ req'.route = "asr")
       => /\ \A f \in DOMAIN fs : f \in DOMAIN fs' /\ fs'[f] = fs[f]
          /\ resp'.status = 200 =>
               LET new == DOMAIN fs' \ DOMAIN fs
               IN  /\ resp'.body.id \notin issued
                   /\ Cardinality(new) = 2
                   /\ \E blob, meta \in new :
                        /\ blob[2] = resp'.body.audioFile
                        /\ fs'[blob].data = Blob(BodySize(req'))
                        /\ meta[2] = resp'.body.id \o ".json"
                        /\ fs'[meta].data.kind = "audio"
                        /\ fs'[meta].data.id = resp'.body.id
                        /\ fs'[meta].data.bytes = BodySize(req')]_vars

C18_Witness ==
  /\ pending = {}
  /\ resp.status = 200
  /\ req.route = "asr"
  /\ req.n = MaxReqs
  /\ \E a, b \in Records("audio") : a.bytes = 3 /\ b.bytes = 4 /\ a.createdAt = b.createdAt

\* C19: records are create-only: whatever request is answered (ingest, link,
\* list, health, static, any other), every file that was on disk is still there
\* with the content and the modification time it had.
C19_CreateOnly ==
  [][\A f \in DOMAIN fs : f \in DOMAIN fs' /\ fs'[f] = fs[f]]_vars

C19_Witness ==
  /\ resp.status = 200
  /\ req.route \in {"asr", "link"}
  /\ Cardinality(DOMAIN fs) > Cardinality(DOMAIN Store(layout, 3).fs)
  /\ \A f \in DOMAIN Store(layout, 3).fs :
       f \in DOMAIN fs /\ fs[f] = Store(layout, 3).fs[f]

\* the language a partition directory is for
PartitionLang(dir) == IF dir = AUDIO_HT_DIR THEN "ht" ELSE "en"

\* C20: every stored audio record is in exactly one language partition: its
\* sidecar and its blob are in the same directory, audio/en or audio/ht, its lang
\* field names the language of that partition, and no file of the other
\* partition carries its id.
C20_OnePartition ==
  \A f \in DOMAIN fs :
    fs[f].data.kind = "audio" =>
      LET record == fs[f].data
      IN  /\ f[1] \in {AUDIO_EN_DIR, AUDIO_HT_DIR}
          /\ <<f[1], record.audioFile>> \in DOMAIN fs
          /\ startsWith(record.lang, PartitionLang(f[1]))
          /\ \A g \in DOMAIN fs : startsWith(g[2], record.id \o ".") => g[1] = f[1]

\* C21: a list request that meets no failure of the file system, on a store
\* with no record matching its kind (the store whose directories do not exist
\* yet included), returns 200 with count 0 and an empty items sequence.
C21_EmptyListingSucceeds ==
  (/\ req.route = "list"
   /\ req.fault = "none"
   /\ Matching(toLowerCase(req.kind)) = {})
    => /\ resp.status = 200
       /\ resp.body.count = 0
       /\ resp.body.items = << >>

C21_Witness ==
  /\ Listed
  /\ req.fault = "none"
  /\ DOMAIN fs = {}
  /\ resp.body.count = 0
  /\ resp.body.items = << >>
  /\ layout = "partitioned" => PAIRS_DIR \in dirs

\* the extension the content-type mapping is to give each content type sent
ExpectedExt ==
  [ct \in {"audio/webm", "Audio/WAV; codecs=1", "audio/mpeg", "audio/mp3",
           "AUDIO/OGG", "video/webm", "x-audio/wave", ""} |->
     CASE ct = "audio/webm" -> ".webm"
       [] ct \in {"Audio/WAV; codecs=1", "x-audio/wave"} -> ".wav"
       [] ct \in {"audio/mpeg", "audio/mp3"} -> ".mp3"
       [] ct = "AUDIO/OGG" -> ".ogg"
       [] OTHER -> ".bin"]

\* C22: every content type has an extension: .webm for audio/webm, .wav for
\* audio/wav, .mp3 for audio/mpeg or audio/mp3, .ogg for audio/ogg, matched as
\* a substring whatever the case, and .bin for anything else or no content
\* type; a successful ingest stores its blob under the id with that extension,
\* and the record of the partitioned server has codec pcm_s16le for .wav, opus
\* for .webm and unknown for every other extension.
C22_ExtensionAndCodec ==
  [][(Answered /\ req'.route = "asr" /\ resp'.status = 200)
       => LET m == resp'.body
              ext == ExpectedExt[req'.ct]
          IN  /\ m.audioFile = m.id \o ext
              /\ \E f \in DOMAIN fs' \ DOMAIN fs :
                   f[2] = m.audioFile /\ fs'[f].data = Blob(m.bytes)
              /\ layout = "partitioned" =>
                   m.codec = (CASE ext = ".wav" -> "pcm_s16le"
                                [] ext = ".webm" -> "opus"
                                [] OTHER -> "unknown")]_vars

C22_Witness ==
  /\ layout = "partitioned"
  /\ req.route = "asr"
  /\ resp.status = 200
  /\ req.ct = "Audio/WAV; codecs=1"
  /\ resp.body.audioFile = resp.body.id \o ".wav"
  /\ resp.body.codec = "pcm_s16le"

PairListing(w, rev) == Handle(layout, w, ListReq("pair", rev, "none")).resp.body.items

\* C26: a link request that the server rejects, with 400 for a missing field or
\* for consent not given, or because its body does not parse, creates and
\* changes no file, and a kind=pair listing after it returns the items a
\* kind=pair listing before it returned.
C26_RejectedLinkWritesNothing ==
  [][(Answered /\ req'.route = "link"
        /\ (resp'.status = 400 \/ req'.json = "malformed"))
       => /\ resp'.status # 200
          /\ fs' = fs
          /\ \A rev \in BOOLEAN :
               PairListing([dirs |-> dirs', fs |-> fs', now |-> now',
                            issued |-> issued'], rev)
                 = PairListing(World, rev)]_vars

C26_Witness ==
  /\ layout = "partitioned"
  /\ req.route = "link"
  /\ resp.status = 400
  /\ Missing(req.p) = {}
  /\ req.p.consent = JBool(FALSE)
  /\ Records("pair") # {}
  /\ PairListing(World, FALSE) # << >>

\* the matching files that do not parse
Unparseable(kind) == {p \in MatchingFiles(kind) : fs[p].data = Corrupt}

\* C23: a list request that meets no failure of readdir or mkdir returns 200
\* whatever files fail to parse; its items are records of matching files,
\* newest first; a record is listed when fewer than 50 other matching files,
\* parseable or not, are as new as its file or newer; and the items together
\* with the unparseable files newer than the oldest item are at most 50, so no
\* older file takes the place of an unparseable one.
C23_UnparseableSkipped ==
  (req.route = "list" /\ req.fault = "none") =>
    /\ resp.status = 200
    /\ resp.body.kind \in {"audio", "pair", "all"} =>
         LET items == resp.body.items
             kind == resp.body.kind
             mtimeOf(i) == fs[FileOf(i)].mtime
         IN  /\ resp.body.count = Len(items)
             /\ Range(items) \subseteq Matching(kind)
             /\ Len(items) = Cardinality(Range(items))
             /\ \A k \in 1..(Len(items) - 1) : mtimeOf(items[k]) >= mtimeOf(items[k + 1])
             /\ \A x \in Matching(kind) :
                  Cardinality(AsNewAs(kind, x)) < PAGE_SIZE => x \in Range(items)
             /\ items # << >> =>
                  Len(items)
                    + Cardinality({p \in Unparseable(kind) :
                                     fs[p].mtime > mtimeOf(items[Len(items)])})
                    <= PAGE_SIZE

C23_Witness ==
  /\ Listed
  /\ resp.body.kind = "all"
  /\ Cardinality(MatchingFiles("all")) > PAGE_SIZE
  /\ Unparseable("all") # {}
  /\ resp.body.count = PAGE_SIZE - Cardinality(Unparseable("all"))
  /\ Matching("all") \ Range(resp.body.items) # {}

\* the blob files stored next to a sidecar file under the sidecar's id
BlobsOf(p) ==
  LET stem == SubSeq(p[2], 1, Len(p[2]) - Len("json"))
  IN  {q \in DOMAIN fs :
         /\ q[1] = p[1]
         /\ fs[q].data.kind = "blob"
         /\ Len(q[2]) > Len(stem)
         /\ SubSeq(q[2], 1, Len(stem)) = stem}

\* the sidecar files, complete or not
Sidecars == MatchingFiles("audio")

\* the blob files without a sidecar file
Orphans ==
  {q \in DOMAIN fs : fs[q].data.kind = "blob"} \ UNION {BlobsOf(p) : p \in Sidecars}

\* what both statements of C25 say of the blobs and of the listings: the blob
\* of a complete sidecar is the file the sidecar names, with the bytes it
\* states; the blob of any sidecar file is not the empty file a failed write
\* leaves (every body of SpecEdge has bytes); a listing returns records only,
\* and none that names an orphaned blob.
BlobBeforeSidecar ==
  /\ \A p \in Sidecars :
       /\ \E q \in BlobsOf(p) : fs[q].data.length > 0
       /\ fs[p].data.kind = "audio" =>
            \E q \in BlobsOf(p) :
              q[2] = fs[p].data.audioFile /\ fs[q].data = Blob(fs[p].data.bytes)
  /\ Listed =>
       LET orphaned == {q[2] : q \in Orphans}
       IN  \A k \in DOMAIN resp.body.items :
             LET item == resp.body.items[k]
             IN  /\ item.kind \in {"audio", "pair"}
                 /\ item.kind = "audio" => item.audioFile \notin orphaned

WrittenOf(kind) == {x \in written : kind = "all" \/ x.kind = kind}

\* the matching files modified more recently than the record's own
Newer(kind, item) ==
  LET mtime == fs[FileOf(item)].mtime
  IN  {p \in MatchingFiles(kind) : fs[p].mtime > mtime}

\* C27 as stated: after an ingest or a link has returned 200, a list request of
\* a matching kind issued while fewer than 50 newer matching files exist
\* returns an item equal, field by field, to the record of that response.
C27_WriteThenList ==
  (Listed /\ resp.body.kind \in {"audio", "pair", "all"}) =>
    \A x \in WrittenOf(resp.body.kind) :
      Cardinality(Newer(resp.body.kind, x)) < PAGE_SIZE
        => x \in Range(resp.body.items)

\* C27 amended: after an ingest or a link has returned 200, a list request of
\* a matching kind issued while fewer than 50 other matching files are as
\* recently modified as the record's file or more recently returns an item
\* equal, field by field, to the record of that response.
C27_WriteThenListOnPage ==
  (Listed /\ resp.body.kind \in {"audio", "pair", "all"}) =>
    \A x \in WrittenOf(resp.body.kind) :
      Cardinality(AsNewAs(resp.body.kind, x)) < PAGE_SIZE
        => x \in Range(resp.body.items)

C27_Witness ==
  /\ Listed
  /\ resp.body.kind = "all"
  /\ Cardinality(MatchingFiles("all")) > PAGE_SIZE
  /\ \E x \in written :
       /\ x \in Range(resp.body.items)
       /\ resp.body.items[1] # x
       /\ Cardinality(AsNewAs("all", x)) < PAGE_SIZE

====
